---- MODULE Spec2Model ----
(***************************************************************************)
(* Scheduled upload pipeline of src/app.py: the registry of                *)
(* ScheduledUpload entries held by one YouTubeBot, the foreground calls    *)
(* schedule_upload / start_scheduler / stop_scheduler, and the background  *)
(* threads running YouTubeBot._scheduler_loop.                             *)
(*                                                                         *)
(* Time is kept as the time still to run of each thing that waits: the     *)
(* seconds until an entry's scheduled_time (time_until_upload), the rest   *)
(* of a time.sleep(30), the rest of a join(timeout=5).                     *)
(***************************************************************************)
EXTENDS Integers, Sequences, FiniteSets, TLC

\* ---- bound of the model: the foreground calls that create an object, one
\* schedule_upload for each entry, one start_scheduler for each loop thread
\* and one stop_scheduler before each start but the first
MaxCalls == 5

\* ---- bound of the model: the schedule requests typed at the menu
MaxRequests == 2

\* ---- program constants ----
SleepInterval == 30
JoinTimeout == 5

Uploads == 1..MaxCalls
Threads == 1..((MaxCalls + 1) \div 2)
NoThread == 0
NoUpload == 0

VARIABLES
    scheduled_uploads,  \* YouTubeBot.scheduled_uploads: sequence of entries
    status,             \* ScheduledUpload.status of each entry
    time_until_upload,  \* seconds until the entry's scheduled_time, 0 once reached
    scheduler_running,  \* YouTubeBot.scheduler_running
    scheduler_thread,   \* YouTubeBot.scheduler_thread (NoThread = None)
    pc,                 \* position of each _scheduler_loop thread
    todo,               \* rest of the snapshot scheduled_uploads[:] to iterate,
                        \* each entry pending and with current_time >= its
                        \* scheduled_time when the scan began
    upload,             \* local loop variable: the entry being executed
    video_id,           \* local result of upload_video: "id", or None tagged by
                        \* its return site ("missing", "error"); "" outside a call
    sleepLeft,          \* rest of the time.sleep(30) of a thread
    passed,             \* history: the entries of the current scan that the
                        \* test of line 394 found no longer pending
    fg,                 \* foreground thread: "menu" or blocked in "join"
    joinLeft,           \* rest of the join(timeout=5)
    redundantStart,     \* history: the last foreground call was a start while running
    \* ---- one call of upload_video, lines 326-338 ----
    clock,              \* time.time(), in seconds since line 327
    response,           \* local response: "None" until the stepper ends
    last_progress_time, \* local last_progress_time
    progress,           \* status.progress() of the last step, in thousandths
    progress_pct,       \* local progress_pct of the last step that reported
    current_time,       \* local current_time of the last step that reported
    printed,            \* the percentages of the progress lines printed
    \* ---- the schedule requests of main, lines 566-586 ----
    now,                \* datetime.now() when the requests are made
    requests,           \* the number of requests made
    phrase,             \* the time the operator means by the last request
    time_str,           \* local time_str of main: the text typed
    scheduled_time,     \* local scheduled_time of main
    \* ---- one call of generate_metadata, lines 201-265 ----
    video_path,         \* argument video_path
    user_context,       \* argument user_context
    gemini_model,       \* YouTubeBot.gemini_model: None, or what the model does
    metadata,           \* what generate_metadata returned, None before it
    \* ---- _sanitize_title, lines 168-179 ----
    titles,             \* a title, what _sanitize_title returns for it, and
                        \* what it returns for that
    \* ---- the timers of upload_video, called from main (line 553) and from
    \* ---- _scheduler_loop (line 403) ----
    wall,               \* time.time()
    timer,              \* YouTubeBot.timer: its start_time and end_time
    attempt,            \* position of each call of upload_video
    began,              \* history: time.time() when the call began
    ended,              \* history: time.time() when the call stopped the timer
    total               \* the total time the call printed, NoTotal before

vars == <<scheduled_uploads, status, time_until_upload, scheduler_running,
          scheduler_thread, pc, todo, upload, video_id, sleepLeft, passed,
          fg, joinLeft, redundantStart, clock, response, last_progress_time,
          progress, progress_pct, current_time, printed, now, requests,
          phrase, time_str, scheduled_time, video_path, user_context,
          gemini_model, metadata, titles, wall, timer, attempt, began,
          ended, total>>

\* the variables of the scheduler
botVars == <<scheduled_uploads, status, time_until_upload, scheduler_running,
             scheduler_thread, pc, todo, upload, video_id, sleepLeft, passed,
             fg, joinLeft, redundantStart>>

\* the variables of one transfer
progressVars == <<clock, response, last_progress_time, progress, progress_pct,
                  current_time, printed>>

\* the variables of the schedule requests
menuVars == <<now, requests, phrase, time_str, scheduled_time>>

\* the variables outside the scheduler
\* the variables of a call of generate_metadata
metaVars == <<video_path, user_context, gemini_model, metadata>>

\* the variables of the calls of _sanitize_title
titleVars == <<titles>>

\* the variables of the timers of upload_video
timerVars == <<wall, timer, attempt, began, ended, total>>

otherVars == <<progressVars, menuVars, metaVars, titleVars, timerVars>>

loopVars == <<pc, todo, upload, video_id, sleepLeft, passed>>
entryVars == <<status, time_until_upload>>
fgVars == <<fg, joinLeft, redundantStart>>

InRegistry(e) == \E i \in 1..Len(scheduled_uploads) : scheduled_uploads[i] = e

\* mutant of Remove: the first entry is taken out, as by pop(0)
Remove_Head(s, e) == Tail(s)

\* list.remove(x) for a list without duplicates
Remove(s, e) == SelectSeq(s, LAMBDA x : x # e)

Live(t) == pc[t] \notin {"unborn", "done", "crashed"}

Terminal(e) == status[e] \in {"completed", "failed"}

\* the least number of calls that creates u entries and n loop threads
Calls(u, n) == u + (IF n = 0 THEN 0 ELSE 2 * n - 1)

NumUploads == Cardinality({e \in Uploads : status[e] # "none"})
NumThreads == Cardinality({t \in Threads : pc[t] # "unborn"})

\* YouTubeBot(...): no entry, no scheduler thread
BotInit ==
    /\ scheduled_uploads = <<>>
    /\ status = [e \in Uploads |-> "none"]
    /\ time_until_upload = [e \in Uploads |-> 0]
    /\ scheduler_running = FALSE
    /\ scheduler_thread = NoThread
    /\ pc = [t \in Threads |-> "unborn"]
    /\ todo = [t \in Threads |-> <<>>]
    /\ upload = [t \in Threads |-> NoUpload]
    /\ video_id = [t \in Threads |-> ""]
    /\ sleepLeft = [t \in Threads |-> 0]
    /\ passed = [t \in Threads |-> {}]
    /\ fg = "menu"
    /\ joinLeft = 0
    /\ redundantStart = FALSE

\* upload_video at line 328: the transfer begins, nothing reported yet
ProgressInit ==
    /\ clock = 0
    /\ response = "None"
    /\ last_progress_time = 0
    /\ progress = 0
    /\ progress_pct = 0
    /\ current_time = 0
    /\ printed = <<>>

\* the value None
None == [none |-> TRUE]

\* no schedule request made
MenuIdle ==
    /\ requests = 0
    /\ phrase = [style |-> "none", hour |-> 0, minute |-> 0, text |-> <<>>]
    /\ time_str = <<>>
    /\ scheduled_time = None

\* no metadata asked for
MetaIdle ==
    /\ video_path = <<>>
    /\ user_context = <<>>
    /\ gemini_model = None
    /\ metadata = None

\* no title sanitized
TitleIdle == titles = <<>>

\* None, for a time
NoTime == 0
NoTotal == -1

\* the threads that call upload_video: main at line 553, the scheduler
\* loop at line 403
Attempts == {"menu", "loop"}

\* self.timer = Timer(), and no call of upload_video
TimerInit ==
    /\ wall = 1
    /\ timer = [start_time |-> NoTime, end_time |-> NoTime]
    /\ attempt = [a \in Attempts |-> "idle"]
    /\ began = [a \in Attempts |-> NoTime]
    /\ ended = [a \in Attempts |-> NoTime]
    /\ total = [a \in Attempts |-> NoTotal]

Init ==
    /\ BotInit /\ ProgressInit /\ MenuIdle /\ now = None
    /\ MetaIdle /\ TitleIdle /\ TimerInit

\* ------------------------------------------------------------------------
\* Environment
\* ------------------------------------------------------------------------

\* the waits in progress: a sleep, the bounded join, a fire time not yet reached
Waits ==
    {sleepLeft[t] : t \in Threads} \cup {joinLeft}
    \cup {time_until_upload[e] : e \in Uploads}

Less(x, d) == IF x > d THEN x - d ELSE 0

\* time passes, up to the end of one of the waits in progress
Tick ==
    /\ \E d \in Waits :
        /\ d > 0
        /\ sleepLeft' = [t \in Threads |-> Less(sleepLeft[t], d)]
        /\ joinLeft' = Less(joinLeft, d)
        /\ time_until_upload' = [e \in Uploads |-> Less(time_until_upload[e], d)]
    /\ UNCHANGED otherVars
    /\ UNCHANGED <<scheduled_uploads, status, scheduler_running,
                   scheduler_thread, pc, todo, upload, video_id, passed,
                   fg, redundantStart>>

\* ------------------------------------------------------------------------
\* Foreground thread
\* ------------------------------------------------------------------------

\* ScheduledUpload(...) followed by bot.schedule_upload(upload)
schedule_upload(e, delay) ==
    /\ status' = [status EXCEPT ![e] = "pending"]
    /\ time_until_upload' = [time_until_upload EXCEPT ![e] = delay]
    /\ scheduled_uploads' = Append(scheduled_uploads, e)

ScheduleUpload ==
    /\ fg = "menu"
    /\ Calls(NumUploads + 1, NumThreads) <= MaxCalls
    /\ \E e \in Uploads :
        /\ status[e] = "none"
        /\ \A f \in Uploads : f < e => status[f] # "none"
        /\ \E delay \in {0, SleepInterval} : schedule_upload(e, delay)
    /\ redundantStart' = FALSE
    /\ UNCHANGED otherVars
    /\ UNCHANGED <<scheduler_running, scheduler_thread, loopVars, fg,
                   joinLeft>>

\* mutant of start_scheduler: the early return of line 373 is left out
start_scheduler_NoGuard ==
    \E t \in Threads :
        /\ Calls(NumUploads, NumThreads + 1) <= MaxCalls
        /\ pc[t] = "unborn"
        /\ \A u \in Threads : u < t => pc[u] # "unborn"
        /\ scheduler_running' = TRUE
        /\ scheduler_thread' = t
        /\ pc' = [pc EXCEPT ![t] = "while"]
        /\ UNCHANGED <<todo, upload, video_id, sleepLeft, passed>>

start_scheduler ==
    IF scheduler_running
    THEN UNCHANGED <<scheduler_running, scheduler_thread, loopVars>>
    ELSE \E t \in Threads :
        /\ Calls(NumUploads, NumThreads + 1) <= MaxCalls
        /\ pc[t] = "unborn"
        /\ \A u \in Threads : u < t => pc[u] # "unborn"
        /\ scheduler_running' = TRUE
        /\ scheduler_thread' = t
        /\ pc' = [pc EXCEPT ![t] = "while"]
        /\ UNCHANGED <<todo, upload, video_id, sleepLeft, passed>>

StartScheduler ==
    /\ fg = "menu"
    /\ start_scheduler
    /\ redundantStart' = scheduler_running
    /\ UNCHANGED otherVars
    /\ UNCHANGED <<scheduled_uploads, entryVars, fg, joinLeft>>

stop_scheduler ==
    /\ scheduler_running' = FALSE
    /\ IF scheduler_thread # NoThread
       THEN /\ fg' = "join"
            /\ joinLeft' = JoinTimeout
       ELSE UNCHANGED <<fg, joinLeft>>
    /\ UNCHANGED scheduler_thread

StopScheduler ==
    /\ fg = "menu"
    /\ stop_scheduler
    /\ redundantStart' = FALSE
    /\ UNCHANGED otherVars
    /\ UNCHANGED <<scheduled_uploads, entryVars, loopVars>>

\* scheduler_thread.join(timeout=5) returns: the thread ended or the time is up
JoinReturn ==
    /\ fg = "join"
    /\ \/ ~Live(scheduler_thread)
       \/ joinLeft = 0
    /\ fg' = "menu"
    /\ joinLeft' = 0
    /\ UNCHANGED otherVars
    /\ UNCHANGED <<scheduled_uploads, entryVars, scheduler_running,
                   scheduler_thread, loopVars, redundantStart>>

\* ------------------------------------------------------------------------
\* Background thread: _scheduler_loop
\* ------------------------------------------------------------------------

\* mutant of Reached: the test of the fire time is left out
Reached_NoTimeTest(e) == TRUE

\* current_time >= upload.scheduled_time, for current_time = datetime.now()
Reached(e) == time_until_upload[e] = 0

\* the rest of the condition of line 394, read when the entry is examined
Due(e) == status[e] = "pending"

\* the entries of scheduled_uploads[:] that can pass the test of line 394:
\* current_time and scheduled_time are both fixed when the scan begins, and
\* a status that is not pending never becomes pending again, so an entry
\* not reached or not pending then fails the test whenever the scan
\* examines it
Snapshot == SelectSeq(scheduled_uploads, LAMBDA e : Reached(e) /\ Due(e))

\* the entries at the head of s that fail the test of line 394
RECURSIVE Skipped(_)
Skipped(s) ==
    IF s = <<>> \/ Due(Head(s)) THEN {} ELSE {Head(s)} \cup Skipped(Tail(s))

\* the iterations of the for loop whose test fails change nothing: the scan
\* moves on to the next entry that passes (a status that is not pending
\* never becomes pending again)
RECURSIVE SkipTo(_)
SkipTo(s) == IF s = <<>> \/ Due(Head(s)) THEN s ELSE SkipTo(Tail(s))

\* the loop condition, read when the thread starts and whenever its
\* time.sleep(30) returns; then current_time = now and the snapshot
LoopCheck(t) ==
    /\ \/ pc[t] = "while"
       \/ pc[t] = "sleep" /\ sleepLeft[t] = 0
    /\ IF scheduler_running
       THEN /\ pc' = [pc EXCEPT ![t] = "for"]
            /\ todo' = [todo EXCEPT ![t] = Snapshot]
       ELSE /\ pc' = [pc EXCEPT ![t] = "done"]
            /\ UNCHANGED todo
    /\ UNCHANGED otherVars
    /\ UNCHANGED <<scheduled_uploads, entryVars, scheduler_running,
                   scheduler_thread, upload, video_id, sleepLeft, passed,
                   fgVars>>

\* mutant of ForNext: the loop returns after a scan instead of sleeping
ForNext_NoSleep(t) ==
    /\ pc[t] = "for"
    /\ IF SkipTo(todo[t]) = <<>>
       THEN /\ pc' = [pc EXCEPT ![t] = "done"]
            /\ todo' = [todo EXCEPT ![t] = <<>>]
            /\ passed' = [passed EXCEPT ![t] = {}]
            /\ UNCHANGED upload
       ELSE /\ pc' = [pc EXCEPT ![t] = "set"]
            /\ upload' = [upload EXCEPT ![t] = Head(SkipTo(todo[t]))]
            /\ todo' = [todo EXCEPT ![t] = Tail(SkipTo(todo[t]))]
            /\ passed' = [passed EXCEPT ![t] = @ \cup Skipped(todo[t])]
    /\ UNCHANGED otherVars
    /\ UNCHANGED <<scheduled_uploads, entryVars, scheduler_running,
                   scheduler_thread, video_id, sleepLeft, fgVars>>

\* the for loop up to the next entry that passes the test of line 394;
\* after the last entry, time.sleep(30)
ForNext(t) ==
    /\ pc[t] = "for"
    /\ IF SkipTo(todo[t]) = <<>>
       THEN /\ pc' = [pc EXCEPT ![t] = "sleep"]
            /\ sleepLeft' = [sleepLeft EXCEPT ![t] = SleepInterval]
            /\ todo' = [todo EXCEPT ![t] = <<>>]
            /\ passed' = [passed EXCEPT ![t] = {}]
            /\ UNCHANGED upload
       ELSE /\ pc' = [pc EXCEPT ![t] = "set"]
            /\ upload' = [upload EXCEPT ![t] = Head(SkipTo(todo[t]))]
            /\ todo' = [todo EXCEPT ![t] = Tail(SkipTo(todo[t]))]
            /\ passed' = [passed EXCEPT ![t] = @ \cup Skipped(todo[t])]
            /\ UNCHANGED sleepLeft
    /\ UNCHANGED otherVars
    /\ UNCHANGED <<scheduled_uploads, entryVars, scheduler_running,
                   scheduler_thread, video_id, fgVars>>

\* upload.status = "uploading", then upload_video up to the transfer:
\* os.path.exists(video_path) of line 281, read from the file system
SetUploading(t) ==
    /\ pc[t] = "set"
    /\ status' = [status EXCEPT ![upload[t]] = "uploading"]
    /\ \E exists \in BOOLEAN :
        pc' = [pc EXCEPT ![t] = IF exists THEN "transfer" ELSE "nofile"]
    /\ UNCHANGED otherVars
    /\ UNCHANGED <<scheduled_uploads, time_until_upload, scheduler_running,
                   scheduler_thread, todo, upload, video_id, sleepLeft, passed,
                   fgVars>>

\* what upload_video returns: None at line 283 for a missing file, else the
\* id of line 352 or None from the handlers of lines 354-363
Returns(t) == IF pc[t] = "nofile" THEN {"missing"} ELSE {"id", "error"}

\* the status recorded for a result of upload_video (lines 410-415)
Outcome(r) == IF r = "id" THEN "completed" ELSE "failed"

\* upload_video returns; if video_id: status = "completed" else: "failed"
RecordStatus(t) ==
    /\ pc[t] \in {"transfer", "nofile"}
    /\ \E r \in Returns(t) :
        /\ video_id' = [video_id EXCEPT ![t] = r]
        /\ status' = [status EXCEPT ![upload[t]] = Outcome(r)]
    /\ pc' = [pc EXCEPT ![t] = "remove"]
    /\ UNCHANGED otherVars
    /\ UNCHANGED <<scheduled_uploads, time_until_upload, scheduler_running,
                   scheduler_thread, todo, upload, sleepLeft, passed, fgVars>>

\* mutant of RemoveUpload: the entry is left in the registry
RemoveUpload_Keep(t) ==
    /\ pc[t] = "remove"
    /\ pc' = [pc EXCEPT ![t] = "for"]
    /\ video_id' = [video_id EXCEPT ![t] = ""]
    /\ upload' = [upload EXCEPT ![t] = NoUpload]
    /\ UNCHANGED otherVars
    /\ UNCHANGED <<scheduled_uploads, todo, entryVars, scheduler_running,
                   scheduler_thread, sleepLeft, passed, fgVars>>

\* self.scheduled_uploads.remove(upload); ValueError when it is not there
RemoveUpload(t) ==
    /\ pc[t] = "remove"
    /\ IF InRegistry(upload[t])
       THEN /\ scheduled_uploads' = Remove(scheduled_uploads, upload[t])
            /\ pc' = [pc EXCEPT ![t] = "for"]
            /\ video_id' = [video_id EXCEPT ![t] = ""]
            /\ UNCHANGED <<todo, passed>>
       ELSE /\ pc' = [pc EXCEPT ![t] = "crashed"]
            /\ todo' = [todo EXCEPT ![t] = <<>>]
            /\ passed' = [passed EXCEPT ![t] = {}]
            /\ UNCHANGED <<scheduled_uploads, video_id>>
    /\ upload' = [upload EXCEPT ![t] = NoUpload]
    /\ UNCHANGED otherVars
    /\ UNCHANGED <<entryVars, scheduler_running, scheduler_thread, sleepLeft,
                   fgVars>>

LoopStep(t) ==
    \/ LoopCheck(t)
    \/ ForNext(t)
    \/ SetUploading(t)
    \/ RecordStatus(t)
    \/ RemoveUpload(t)

Next ==
    \/ Tick
    \/ ScheduleUpload
    \/ StartScheduler
    \/ StopScheduler
    \/ JoinReturn
    \/ \E t \in Threads : LoopStep(t)

Spec == Init /\ [][Next]_vars

\* ------------------------------------------------------------------------
\* The dispatcher started and never stopped: the calls of main() before quit
\* ------------------------------------------------------------------------

NextStarted ==
    \/ Tick
    \/ ScheduleUpload
    \/ StartScheduler
    \/ \E t \in Threads : LoopStep(t)

\* every loop thread keeps taking steps, every upload_video call returns, and
\* time passes
Fairness ==
    /\ WF_vars(Tick)
    /\ \A t \in Threads : WF_vars(LoopStep(t))

LiveSpec == Init /\ [][NextStarted]_vars /\ Fairness

\* ------------------------------------------------------------------------
\* upload_video: the progress lines of one transfer (lines 326-338)
\* ------------------------------------------------------------------------

\* the values of status.progress() a stepper reports, in thousandths; a
\* stepper reports them in increasing order
Fractions == {100, 255, 260, 500, 900, 1000}

\* the seconds one call of request.next_chunk() can take
Durations == {0, 1, 2}

ThrottleInterval == 2

\* int(status.progress() * 100)
Percent(f) == (f * 100) \div 1000

\* progress_pct in [25, 50, 75, 100]
Milestone(p) == p \in {25, 50, 75, 100}

\* mutant of Surfaced: the test of the percentage is left out
Surfaced_TimeOnly(ct, last, p) == ct - last >= ThrottleInterval

\* the condition of line 335
Surfaced(ct, last, p) == ct - last >= ThrottleInterval \/ Milestone(p)

\* one iteration of the while loop of line 329: next_chunk returns a status
\* that reports progress, or no status and the response
NextChunk ==
    /\ response = "None"
    /\ \E d \in Durations :
        /\ clock' = clock + d
        /\ \/ \E f \in Fractions :
                /\ f > progress
                /\ progress' = f
                /\ progress_pct' = Percent(f)
                /\ current_time' = clock'
                /\ IF Surfaced(clock', last_progress_time, Percent(f))
                   THEN /\ printed' = Append(printed, Percent(f))
                        /\ last_progress_time' = clock'
                   ELSE UNCHANGED <<printed, last_progress_time>>
                /\ UNCHANGED response
           \/ /\ response' = "done"
              /\ UNCHANGED <<last_progress_time, progress, progress_pct,
                             current_time, printed>>
    /\ UNCHANGED <<botVars, menuVars, metaVars, titleVars, timerVars>>

ProgressSpec == Init /\ [][NextChunk]_vars

\* ------------------------------------------------------------------------
\* Strings: a str is the sequence of its characters
\* ------------------------------------------------------------------------

\* the whitespace characters of the strings used here
IsSpace(c) == c \in {" ", "\n"}

RECURSIVE Concat(_)
Concat(ss) == IF ss = <<>> THEN <<>> ELSE Head(ss) \o Concat(Tail(ss))

\* s[n:]
Drop(s, n) == SubSeq(s, n + 1, Len(s))

\* s[:n]
Take(s, n) == SubSeq(s, 1, IF n < Len(s) THEN n ELSE Len(s))

\* s.startswith(sub)
StartsWith(s, sub) == Len(sub) <= Len(s) /\ SubSeq(s, 1, Len(sub)) = sub

\* sub in s
Contains(s, sub) ==
    \E i \in 0..(Len(s) - Len(sub)) : SubSeq(s, i + 1, i + Len(sub)) = sub

\* the positions of s that hold no whitespace
Inked(s) == {i \in 1..Len(s) : ~IsSpace(s[i])}

\* the least and the greatest element of a non-empty set of numbers
Least(S) == CHOOSE i \in S : \A j \in S : i <= j
Greatest(S) == CHOOSE i \in S : \A j \in S : j <= i

\* s.lstrip()
LStrip(s) ==
    IF Inked(s) = {} THEN <<>> ELSE SubSeq(s, Least(Inked(s)), Len(s))

\* s.rstrip()
RStrip(s) ==
    IF Inked(s) = {} THEN <<>> ELSE SubSeq(s, 1, Greatest(Inked(s)))

\* s.strip()
Strip(s) == RStrip(LStrip(s))

\* s.replace(old, new), for a non-empty old
RECURSIVE Replace(_, _, _)
Replace(s, old, new) ==
    IF s = <<>> THEN <<>>
    ELSE IF StartsWith(s, old)
         THEN new \o Replace(Drop(s, Len(old)), old, new)
         ELSE <<Head(s)>> \o Replace(Tail(s), old, new)

\* the text before the first sep of s, all of s when there is none
RECURSIVE Before(_, _)
Before(s, sep) ==
    IF s = <<>> \/ StartsWith(s, sep) THEN <<>>
    ELSE <<Head(s)>> \o Before(Tail(s), sep)

\* s.split(sep), for a non-empty sep: the list of the parts
RECURSIVE Split(_, _)
Split(s, sep) ==
    LET first == Before(s, sep)
    IN  IF Len(first) = Len(s) THEN <<s>>
        ELSE <<first>> \o Split(Drop(s, Len(first) + Len(sep)), sep)

\* s.split(sep, 1)
SplitOnce(s, sep) ==
    LET first == Before(s, sep)
    IN  IF Len(first) = Len(s) THEN <<s>>
        ELSE <<first, Drop(s, Len(first) + Len(sep))>>

\* the first word of s, for s without leading whitespace
Word(s) ==
    LET blanks == {i \in 1..Len(s) : IsSpace(s[i])}
    IN  IF blanks = {} THEN s ELSE SubSeq(s, 1, Least(blanks) - 1)

\* s.split(): the list of the words between runs of whitespace
RECURSIVE Words(_)
Words(s) ==
    LET t == LStrip(s)
    IN  IF t = <<>> THEN <<>>
        ELSE <<Word(t)>> \o Words(Drop(t, Len(Word(t))))

\* sep.join(parts)
RECURSIVE Join(_, _)
Join(sep, parts) ==
    IF parts = <<>> THEN <<>>
    ELSE IF Len(parts) = 1 THEN parts[1]
         ELSE parts[1] \o sep \o Join(sep, Tail(parts))

\* the letters with two cases of the strings used here
UpperCase == <<"A", "M", "P">>
LowerCase == <<"a", "m", "p">>

LowerChar(c) ==
    IF \E i \in 1..Len(UpperCase) : UpperCase[i] = c
    THEN LowerCase[CHOOSE i \in 1..Len(UpperCase) : UpperCase[i] = c]
    ELSE c

\* s.lower()
Lower(s) == [i \in 1..Len(s) |-> LowerChar(s[i])]

DigitChars == <<"0", "1", "2", "3", "4", "5", "6", "7", "8", "9">>

IsDigit(c) == \E i \in 1..10 : DigitChars[i] = c

DigitValue(c) == (CHOOSE i \in 1..10 : DigitChars[i] = c) - 1

\* int(s) for a string of digits
RECURSIVE IntOf(_)
IntOf(s) ==
    IF s = <<>> THEN 0
    ELSE IntOf(SubSeq(s, 1, Len(s) - 1)) * 10 + DigitValue(s[Len(s)])

\* str(n) for n >= 0
RECURSIVE StrOf(_)
StrOf(n) ==
    IF n < 10 THEN <<DigitChars[n + 1]>>
    ELSE StrOf(n \div 10) \o <<DigitChars[(n % 10) + 1]>>

\* the digits at the head of s
RECURSIVE TakeDigits(_)
TakeDigits(s) ==
    IF s = <<>> \/ ~IsDigit(Head(s)) THEN <<>>
    ELSE <<Head(s)>> \o TakeDigits(Tail(s))

\* ------------------------------------------------------------------------
\* parse_schedule_time (lines 439-488) and the schedule request of main
\* ------------------------------------------------------------------------

\* an exception raised inside a try block
ValueError == [raised |-> "ValueError"]

\* date.toordinal(): the days from 0001-01-01 to the date, plus one
IsLeap(y) == y % 4 = 0 /\ (y % 100 # 0 \/ y % 400 = 0)

DaysInMonth(y, m) ==
    IF m = 2 THEN (IF IsLeap(y) THEN 29 ELSE 28)
    ELSE IF m \in {4, 6, 9, 11} THEN 30 ELSE 31

RECURSIVE DaysBeforeMonth(_, _)
DaysBeforeMonth(y, m) ==
    IF m = 1 THEN 0 ELSE DaysBeforeMonth(y, m - 1) + DaysInMonth(y, m - 1)

DaysBeforeYear(y) ==
    (y - 1) * 365 + (y - 1) \div 4 - (y - 1) \div 100 + (y - 1) \div 400

Ordinal(y, m, d) == DaysBeforeYear(y) + DaysBeforeMonth(y, m) + d

\* a datetime is [date, hour, minute, second], date an ordinal; datetimes
\* are ordered, and subtracted, as the seconds from 2024-01-01 00:00:00
Epoch == Ordinal(2024, 1, 1)

Stamp(dt) ==
    (((dt.date - Epoch) * 24 + dt.hour) * 60 + dt.minute) * 60 + dt.second

\* the fields datetime.strptime reads, with their values when not read
NoFields == [Y |-> 1900, m |-> 1, d |-> 1, H |-> 0, I |-> 0, M |-> 0, p |-> ""]

\* mutant of Accepts: any digits are a value of the directive
Accepts_AnyDigits(dir, t) == Len(t) >= 1

\* the digits a numeric directive of a format matches
Accepts(dir, t) ==
    CASE dir = "%Y" -> Len(t) = 4 /\ IntOf(t) >= 1
      [] dir = "%m" -> Len(t) \in 1..2 /\ IntOf(t) \in 1..12
      [] dir = "%d" -> Len(t) \in 1..2 /\ IntOf(t) \in 1..31
      [] dir = "%H" -> Len(t) \in 1..2 /\ IntOf(t) \in 0..23
      [] dir = "%I" -> Len(t) \in 1..2 /\ IntOf(t) \in 1..12
      [] dir = "%M" -> Len(t) \in 1..2 /\ IntOf(t) \in 0..59

Filled(f, dir, v) ==
    CASE dir = "%Y" -> [f EXCEPT !.Y = v]
      [] dir = "%m" -> [f EXCEPT !.m = v]
      [] dir = "%d" -> [f EXCEPT !.d = v]
      [] dir = "%H" -> [f EXCEPT !.H = v]
      [] dir = "%I" -> [f EXCEPT !.I = v]
      [] dir = "%M" -> [f EXCEPT !.M = v]

\* the matching of datetime.strptime(s, fmt), fmt the list of the
\* directives and literal characters of the format: a blank of the format
\* matches one or more blanks, %p matches AM or PM in either case, a
\* numeric directive takes all the digits that follow, and text left over
\* when the format ends is an error
RECURSIVE Match(_, _, _)
Match(s, fmt, f) ==
    IF fmt = <<>> THEN (IF s = <<>> THEN f ELSE ValueError)
    ELSE LET dir == Head(fmt)
         IN  CASE dir = " " ->
                    IF s # <<>> /\ IsSpace(Head(s))
                    THEN Match(LStrip(s), Tail(fmt), f)
                    ELSE ValueError
               [] dir = "%p" ->
                    IF Lower(Take(s, 2)) \in {<<"a", "m">>, <<"p", "m">>}
                    THEN Match(Drop(s, 2), Tail(fmt),
                               [f EXCEPT !.p = Lower(Take(s, 2))[1]])
                    ELSE ValueError
               [] dir \in {"%Y", "%m", "%d", "%H", "%I", "%M"} ->
                    IF Accepts(dir, TakeDigits(s))
                    THEN Match(Drop(s, Len(TakeDigits(s))), Tail(fmt),
                               Filled(f, dir, IntOf(TakeDigits(s))))
                    ELSE ValueError
               [] OTHER ->
                    IF s # <<>> /\ Head(s) = dir
                    THEN Match(Tail(s), Tail(fmt), f)
                    ELSE ValueError

\* the hour of the result of strptime: %H, or %I with %p
HourOf(f) ==
    IF f.p = "" THEN f.H
    ELSE IF f.p = "a" THEN (IF f.I = 12 THEN 0 ELSE f.I)
         ELSE (IF f.I = 12 THEN 12 ELSE f.I + 12)

\* datetime.strptime(s, fmt) for a format of a time: ValueError or the time
Strptime(s, fmt) ==
    LET f == Match(s, fmt, NoFields)
    IN  IF f = ValueError THEN ValueError
        ELSE [hour |-> HourOf(f), minute |-> f.M]

\* datetime.strptime(s, '%Y-%m-%d'): ValueError, also for a day the month
\* does not have, or the date
StrptimeDate(s) ==
    LET f == Match(s, <<"%Y", "-", "%m", "-", "%d">>, NoFields)
    IN  IF f = ValueError THEN ValueError
        ELSE IF f.d > DaysInMonth(f.Y, f.m) THEN ValueError
             ELSE [date |-> Ordinal(f.Y, f.m, f.d)]

HasMeridiem(s) == Contains(s, <<"a", "m">>) \/ Contains(s, <<"p", "m">>)

\* lines 452-456 and 465-469: a time with am or pm
MeridiemTime(s) ==
    LET t == Replace(Replace(s, <<"a", "m">>, <<" ", "A", "M">>),
                     <<"p", "m">>, <<" ", "P", "M">>)
    IN  IF Contains(t, <<":">>)
        THEN Strptime(Strip(t), <<"%I", ":", "%M", " ", "%p">>)
        ELSE Strptime(Strip(t), <<"%I", " ", "%p">>)

\* lines 446-461: a date, a blank and a time
DateAndTime(s) ==
    LET parts == SplitOnce(s, <<" ">>)
        date_obj == StrptimeDate(parts[1])
        time_obj == IF HasMeridiem(parts[2]) THEN MeridiemTime(parts[2])
                    ELSE Strptime(Strip(parts[2]), <<"%H", ":", "%M">>)
    IN  IF date_obj = ValueError \/ time_obj = ValueError THEN ValueError
        ELSE [date |-> date_obj.date, hour |-> time_obj.hour,
              minute |-> time_obj.minute, second |-> 0]

\* mutant of NotAfter: a result equal to now is kept
NotAfter_Strict(result, at) == Stamp(result) < Stamp(at)

\* result <= now
NotAfter(result, at) == Stamp(result) <= Stamp(at)

\* lines 464-484: a time alone, today or tomorrow, for now = at
TimeOnly(s, at) ==
    LET time_obj == IF HasMeridiem(s) THEN MeridiemTime(s)
                    ELSE IF Contains(s, <<":">>)
                         THEN Strptime(Strip(s), <<"%H", ":", "%M">>)
                         ELSE Strptime(Strip(s), <<"%H">>)
        result == [date |-> at.date, hour |-> time_obj.hour,
                   minute |-> time_obj.minute, second |-> 0]
    IN  IF time_obj = ValueError THEN ValueError
        ELSE IF NotAfter(result, at) THEN [result EXCEPT !.date = @ + 1]
             ELSE result

\* except Exception: return None
Handled(r) == IF r = ValueError THEN None ELSE r

\* parse_schedule_time(text), with datetime.now() = at
parse_schedule_time(text, at) ==
    LET s == Lower(Strip(text))
    IN  Handled(IF Contains(s, <<" ">>) THEN DateAndTime(s)
                ELSE TimeOnly(s, at))

\* the day and the times of day at which a request is made; second stands
\* for the seconds and microseconds of datetime.now()
Today == Ordinal(2025, 1, 15)

Nows ==
    {[date |-> Today, hour |-> 9, minute |-> 0, second |-> 0],
     [date |-> Today, hour |-> 9, minute |-> 0, second |-> 20],
     [date |-> Today, hour |-> 23, minute |-> 30, second |-> 0]}

\* the times of day the operator asks for, and the ways to write one
Hours == {0, 9, 12, 23}
Minutes == {0, 30}
TimeStyles == {"9am", "9AM", "10:30pm", "14:00", "14"}

TimePhrases ==
    {p \in [style : TimeStyles, hour : Hours, minute : Minutes, text : {<<>>}] :
        p.style \in {"9am", "9AM", "14"} => p.minute = 0}

\* phrases with a date
DatedTexts ==
    {<<"2", "0", "2", "5", "-", "0", "1", "-", "1", "5", " ", "9", "a", "m">>,
     <<"2", "0", "2", "4", "-", "0", "2", "-", "2", "9", " ", "1", "4", ":",
       "0", "0">>,
     <<"2", "0", "2", "5", "-", "0", "1", "-", "1", "6", " ", "9", " ", "p",
       "m">>}

\* phrases that are no time
MalformedTexts ==
    {<<>>,
     <<"s", "o", "o", "n">>,
     <<"9", " ", "a", "m">>,
     <<"1", "3", "p", "m">>,
     <<"2", "5", ":", "0", "0">>,
     <<"9", ":", "6", "0", "a", "m">>,
     <<"9", "a", "m", "9">>,
     <<"2", "0", "2", "5", "-", "0", "1", "-", "1", "5">>,
     <<"2", "0", "2", "5", "-", "0", "2", "-", "3", "0", " ", "9", "a", "m">>}

Phrases ==
    TimePhrases
    \cup [style : {"dated"}, hour : {0}, minute : {0}, text : DatedTexts]
    \cup [style : {"malformed"}, hour : {0}, minute : {0}, text : MalformedTexts]

\* '%02d' % n
Pad2(n) == IF n < 10 THEN <<"0">> \o StrOf(n) ELSE StrOf(n)

\* the hour on a 12-hour clock
Hour12(h) == IF h % 12 = 0 THEN 12 ELSE h % 12

\* the text the operator types for a phrase
Render(p) ==
    CASE p.style = "9am" ->
            StrOf(Hour12(p.hour))
            \o (IF p.hour < 12 THEN <<"a", "m">> ELSE <<"p", "m">>)
      [] p.style = "9AM" ->
            StrOf(Hour12(p.hour))
            \o (IF p.hour < 12 THEN <<"A", "M">> ELSE <<"P", "M">>)
      [] p.style = "10:30pm" ->
            StrOf(Hour12(p.hour)) \o <<":">> \o Pad2(p.minute)
            \o (IF p.hour < 12 THEN <<"a", "m">> ELSE <<"p", "m">>)
      [] p.style = "14:00" -> StrOf(p.hour) \o <<":">> \o Pad2(p.minute)
      [] p.style = "14" -> StrOf(p.hour)
      [] OTHER -> p.text

MenuInit ==
    /\ BotInit /\ ProgressInit /\ MenuIdle /\ now \in Nows
    /\ MetaIdle /\ TitleIdle /\ TimerInit

\* (scheduled_time - datetime.now()).total_seconds(), 0 once reached
SecondsUntil(dt, t) == Less(Stamp(dt), Stamp(t))

\* choice "2" of main, lines 566-586: the operator types a phrase
MenuSchedule ==
    /\ fg = "menu"
    /\ requests < MaxRequests
    /\ requests' = requests + 1
    /\ \E p \in Phrases :
        /\ phrase' = p
        /\ time_str' = Strip(Render(p))
        /\ scheduled_time' = parse_schedule_time(Strip(Render(p)), now)
    /\ IF scheduled_time' # None
       THEN /\ \E e \in Uploads :
                /\ status[e] = "none"
                /\ \A f \in Uploads : f < e => status[f] # "none"
                /\ schedule_upload(e, SecondsUntil(scheduled_time', now))
            /\ start_scheduler
       ELSE UNCHANGED <<scheduled_uploads, entryVars, scheduler_running,
                        scheduler_thread, loopVars>>
    /\ UNCHANGED <<now, fgVars, progressVars, metaVars, titleVars,
                   timerVars>>

MenuSpec == MenuInit /\ [][MenuSchedule]_vars

\* ------------------------------------------------------------------------
\* _sanitize_title (lines 168-179)
\* ------------------------------------------------------------------------

MAX_TITLE_LENGTH == 100

\* n times the character c
Run(c, n) == [i \in 1..n |-> c]

\* "..."
Ellipsis == Run(".", 3)

\* "Untitled Video"
Untitled ==
    <<"U", "n", "t", "i", "t", "l", "e", "d", " ", "V", "i", "d", "e", "o">>

\* title.strip() and ' '.join(title.split()), lines 170-171
Collapsed(title) == Join(<<" ">>, Words(Strip(title)))

\* mutant of Truncated: the title is cut and no marker is put
Truncated_Bare(title) == Take(title, MAX_TITLE_LENGTH - 3)

\* mutant of Truncated: no room is left for the marker
Truncated_Long(title) == Take(title, MAX_TITLE_LENGTH) \o Ellipsis

\* title[:self.MAX_TITLE_LENGTH - 3] + "...", line 174
Truncated(title) == Take(title, MAX_TITLE_LENGTH - 3) \o Ellipsis

_sanitize_title(title) ==
    LET collapsed == Collapsed(title)
        cut == IF Len(collapsed) > MAX_TITLE_LENGTH THEN Truncated(collapsed)
               ELSE collapsed
    IN  IF cut = <<>> THEN Untitled ELSE cut

\* the titles to sanitize: blanks, a word, blanks, a word, blanks, of the
\* lengths that put the title on each side of the maximum and the cut on a
\* letter or on a blank
LeadLengths == {0, 1}
FirstLengths == {0, 1, 96, 97, 100, 101}
GapLengths == {0, 1, 2, 120}
SecondLengths == {0, 1, 3, 101}
TrailLengths == {0, 1}

RawTitles ==
    {Run(" ", l) \o Run("a", m) \o Run(" ", g) \o Run("b", n) \o Run(" ", r) :
        l \in LeadLengths, m \in FirstLengths, g \in GapLengths,
        n \in SecondLengths, r \in TrailLengths}

\* _sanitize_title applied to the title, and again to what it returned
SanitizeTitle ==
    /\ titles # <<>>
    /\ Len(titles) < 3
    /\ titles' = Append(titles, _sanitize_title(titles[Len(titles)]))
    /\ UNCHANGED <<botVars, progressVars, menuVars, metaVars, timerVars>>

\* the title to sanitize is any of RawTitles
TitleInit ==
    /\ BotInit /\ ProgressInit /\ MenuIdle /\ now = None /\ MetaIdle
    /\ TimerInit
    /\ titles \in {<<t>> : t \in RawTitles}

TitleSpec == TitleInit /\ [][SanitizeTitle]_vars

\* ------------------------------------------------------------------------
\* generate_metadata (lines 201-265), _create_fallback_metadata (181-199)
\* ------------------------------------------------------------------------

\* an exception raised inside the try block of line 229
Raised == [raised |-> "Exception"]

Letters ==
    {"a", "b", "c", "d", "e", "f", "g", "h", "i", "j", "k", "l", "m", "n",
     "o", "p", "q", "r", "s", "t", "u", "v", "w", "x", "y", "z", "A", "B",
     "C", "D", "E", "F", "G", "H", "I", "J", "K", "L", "M", "N", "O", "P",
     "Q", "R", "S", "T", "U", "V", "W", "X", "Y", "Z"}

\* the characters of [\w-]
IsTagChar(c) == c \in Letters \/ IsDigit(c) \/ c \in {"_", "-"}

\* the character U+FF5C, written as its code point
FullwidthBar == "U+FF5C"

\* the position of the last c in s, 0 when there is none
RFind(s, c) ==
    IF \E i \in 1..Len(s) : s[i] = c
    THEN CHOOSE i \in 1..Len(s) :
            s[i] = c /\ \A j \in (i + 1)..Len(s) : s[j] # c
    ELSE 0

\* Path(video_path).stem, for a path that ends in a file name: the name
\* without its last suffix
Stem(path) ==
    LET name == Drop(path, RFind(path, "/"))
        dot == RFind(name, ".")
    IN  IF 1 < dot /\ dot < Len(name) THEN Take(name, dot - 1) ELSE name

\* re.sub(r'\[[\w-]+\]$', '', title)
WithoutTag(title) ==
    LET open == RFind(title, "[")
    IN  IF /\ title # <<>> /\ title[Len(title)] = "]"
           /\ 0 < open /\ open + 1 < Len(title)
           /\ \A j \in (open + 1)..(Len(title) - 1) : IsTagChar(title[j])
        THEN Take(title, open - 1)
        ELSE title

\* "Video: "
VideoLabel == <<"V", "i", "d", "e", "o", ":", " ">>

_create_fallback_metadata(path, context) ==
    LET video_name == Stem(path)
        title == Replace(Replace(WithoutTag(video_name),
                                 <<FullwidthBar, FullwidthBar>>, <<"-">>),
                         <<"_">>, <<" ">>)
    IN  [title |-> _sanitize_title(Join(<<" ">>, Words(title))),
         description |->
            IF context # <<>>
            THEN VideoLabel \o video_name \o <<"\n", "\n">> \o context
            ELSE VideoLabel \o video_name]

TitleMarker == <<"T", "I", "T", "L", "E", ":">>
DescriptionMarker ==
    <<"D", "E", "S", "C", "R", "I", "P", "T", "I", "O", "N", ":">>

\* lines 236-243: the title and the description read from the response
Sections(text) ==
    IF Contains(text, TitleMarker) /\ Contains(text, DescriptionMarker)
    THEN LET parts == Split(text, DescriptionMarker)
         IN  [title |-> Strip(Replace(parts[1], TitleMarker, <<>>)),
              description |-> Strip(parts[2])]
    ELSE LET lines == Split(Strip(text), <<"\n">>)
         IN  [title |-> Strip(lines[1]),
              description |-> Strip(Join(<<"\n">>, Tail(lines)))]

\* line 245: the title without the emphasis marks
Unmarked(title) ==
    Strip(Replace(Replace(title, <<"*", "*">>, <<>>), <<"*">>, <<>>))

\* lines 231-257: the metadata made from the text of the response
FromResponse(text, path) ==
    LET s == Sections(text)
    IN  [title |-> _sanitize_title(Unmarked(s.title)),
         description |->
            IF s.description = <<>> THEN VideoLabel \o Stem(path)
            ELSE s.description]

\* mutant of Recovered: the handler raises the exception again
Recovered_Reraise(r, fallback) == r

\* except Exception, lines 259-265: the fallback metadata
Recovered(r, fallback) == IF r = Raised THEN fallback ELSE r

\* generate_metadata(path, context) for self.gemini_model = model: None,
\* or a model whose generate_content raises, whose response raises when
\* its text is read, or whose response has a text
generate_metadata(path, context, model) ==
    IF model = None THEN _create_fallback_metadata(path, context)
    ELSE Recovered(IF model.raises THEN Raised
                   ELSE FromResponse(model.text, path),
                   _create_fallback_metadata(path, context))

\* the pieces the text of a response is made of
Pieces ==
    {TitleMarker, DescriptionMarker, <<"*", "*">>, <<" ">>, <<"\n">>, <<"x">>}

MaxPieces == 4

RECURSIVE Texts(_)
Texts(n) ==
    IF n = 0 THEN {<<>>}
    ELSE Texts(n - 1) \cup {t \o p : t \in Texts(n - 1), p \in Pieces}

Models ==
    {None}
    \cup [raises : {TRUE}, when : {"generate_content", "text"}, text : {<<>>}]
    \cup [raises : {FALSE}, when : {"never"}, text : Texts(MaxPieces)]

\* "Sunset Timelapse [raw].mp4", "clips/my_clip.mp4"
VideoPaths ==
    {<<"S", "u", "n", "s", "e", "t", " ", "T", "i", "m", "e", "l", "a", "p",
       "s", "e", " ", "[", "r", "a", "w", "]", ".", "m", "p", "4">>,
     <<"c", "l", "i", "p", "s", "/", "m", "y", "_", "c", "l", "i", "p", ".",
       "m", "p", "4">>}

Contexts == {<<>>, <<"f", "u", "n">>}

\* bot.generate_metadata(video_path, user_context)
GenerateMetadata ==
    /\ video_path # <<>>
    /\ metadata = None
    /\ metadata' = generate_metadata(video_path, user_context, gemini_model)
    /\ UNCHANGED <<video_path, user_context, gemini_model>>
    /\ UNCHANGED <<botVars, progressVars, menuVars, titleVars, timerVars>>

\* any path, context and model
MetaInit ==
    /\ BotInit /\ ProgressInit /\ MenuIdle /\ now = None /\ TitleIdle
    /\ TimerInit
    /\ video_path \in VideoPaths
    /\ user_context \in Contexts
    /\ gemini_model \in Models
    /\ metadata = None

MetaSpec == MetaInit /\ [][GenerateMetadata]_vars

\* ------------------------------------------------------------------------
\* Timer (lines 23-59) and self.timer in upload_video (lines 279-363)
\* ------------------------------------------------------------------------

MaxWall == 4

\* Timer.start at time w
TimerStart(w) == [start_time |-> w, end_time |-> NoTime]

\* Timer.stop at time w
TimerStop(tm, w) == [tm EXCEPT !.end_time = w]

\* Timer.elapsed at time w
Elapsed(tm, w) ==
    IF tm.start_time = NoTime THEN 0
    ELSE (IF tm.end_time # NoTime THEN tm.end_time ELSE w) - tm.start_time

\* the other variables of the timers
TimerFrame == UNCHANGED <<botVars, progressVars, menuVars, metaVars, titleVars>>

\* time passes
Pass ==
    /\ wall < MaxWall
    /\ wall' = wall + 1
    /\ UNCHANGED <<timer, attempt, began, ended, total>>
    /\ TimerFrame

\* upload_video is called: self.timer.start(), line 279
BeginUpload(a) ==
    /\ attempt[a] = "idle"
    /\ timer' = TimerStart(wall)
    /\ began' = [began EXCEPT ![a] = wall]
    /\ attempt' = [attempt EXCEPT ![a] = "started"]
    /\ UNCHANGED <<wall, ended, total>>
    /\ TimerFrame

\* the file is missing: return None, lines 281-283
ReturnMissing(a) ==
    /\ attempt[a] = "started"
    /\ attempt' = [attempt EXCEPT ![a] = "returned"]
    /\ UNCHANGED <<wall, timer, began, ended, total>>
    /\ TimerFrame

\* the transfer ends or raises: self.timer.stop(), lines 341, 355, 360
StopTimer(a) ==
    /\ attempt[a] = "started"
    /\ timer' = TimerStop(timer, wall)
    /\ ended' = [ended EXCEPT ![a] = wall]
    /\ attempt' = [attempt EXCEPT ![a] = "stopped"]
    /\ UNCHANGED <<wall, began, total>>
    /\ TimerFrame

\* self.timer.formatted_elapsed() is printed, lines 350, 357, 362, and
\* upload_video returns
ReportTotal(a) ==
    /\ attempt[a] = "stopped"
    /\ total' = [total EXCEPT ![a] = Elapsed(timer, wall)]
    /\ attempt' = [attempt EXCEPT ![a] = "returned"]
    /\ UNCHANGED <<wall, timer, began, ended>>
    /\ TimerFrame

TimerNext ==
    \/ Pass
    \/ \E a \in Attempts :
        \/ BeginUpload(a)
        \/ ReturnMissing(a)
        \/ StopTimer(a)
        \/ ReportTotal(a)

TimerSpec == Init /\ [][TimerNext]_vars

\* ------------------------------------------------------------------------
\* Properties
\* ------------------------------------------------------------------------

\* a stop was requested while loop t was running: the flag is down, or it
\* went down and a later start made another thread the scheduler thread
StopRequested(t) ==
    Live(t) /\ (~scheduler_running \/ scheduler_thread # t)

OneWay ==
    {<<"none", "pending">>, <<"pending", "uploading">>,
     <<"uploading", "completed">>, <<"uploading", "failed">>}

\* C1: the status of an entry only moves pending -> uploading -> completed
\* or pending -> uploading -> failed: no step takes it from pending to a
\* terminal status, out of completed or failed, or back to pending.
C1_StatusOneWay ==
    [][\A e \in Uploads :
        status'[e] # status[e] => <<status[e], status'[e]>> \in OneWay]_vars

\* C2: at most one entry has status uploading.
C2_AtMostOneUploading ==
    Cardinality({e \in Uploads : status[e] = "uploading"}) <= 1

\* C3: a terminal entry is in the registry only while the loop that recorded
\* its status is about to remove it, before that loop examines another entry
\* or sleeps; so whenever no loop is in the middle of an item, every entry in
\* the registry is pending.
C3_NoTerminalPersists ==
    /\ \A e \in Uploads :
        InRegistry(e) /\ Terminal(e) =>
            \E t \in Threads : pc[t] = "remove" /\ upload[t] = e
    /\ (\A t \in Threads : Live(t) => pc[t] \in {"while", "for", "sleep"}) =>
            \A e \in Uploads : InRegistry(e) => status[e] = "pending"

\* an entry went through an upload and is gone, a pending one remains, and
\* the loop is asleep
C3_Witness ==
    \E e, f \in Uploads, t \in Threads :
        /\ Terminal(e) /\ ~InRegistry(e)
        /\ InRegistry(f) /\ status[f] = "pending"
        /\ pc[t] = "sleep"

\* C4: a loop takes an entry up for execution only if, when it examines it,
\* the entry is pending and its fire time has been reached; no entry is
\* uploading or being executed before its fire time.
C4_NotBeforeFireTime ==
    [][/\ \A t \in Threads :
            pc[t] # "set" /\ pc'[t] = "set" =>
                status[upload'[t]] = "pending"
                /\ time_until_upload[upload'[t]] = 0
       /\ \A e \in Uploads :
            status'[e] = "uploading" => time_until_upload'[e] = 0
       /\ \A t \in Threads :
            pc'[t] \in {"set", "transfer", "nofile"} =>
                time_until_upload'[upload'[t]] = 0]_vars

\* an entry is being transferred while an entry submitted before it, whose
\* fire time is still ahead, stays pending in the registry
C4_Witness ==
    \E e, f \in Uploads, t \in Threads :
        /\ pc[t] = "transfer" /\ upload[t] = e /\ status[e] = "uploading"
        /\ f < e /\ InRegistry(f) /\ status[f] = "pending"
        /\ time_until_upload[f] > 0

\* C5: when the transfer raises during the execution of an entry, the status
\* of the entry is failed from then on, the entry is removed, and no
\* exception escapes the loop, which goes on with the other entries.
C5_TransferErrorHandled ==
    \A t \in Threads :
        video_id[t] = "error" =>
            pc[t] = "remove" /\ status[upload[t]] = "failed"

\* C6: when the file of an entry is missing as the entry fires, the attempt
\* fails without a transfer: the status of the entry is failed from then on
\* and the entry is removed by the loop, which goes on.
C6_MissingFileFails ==
    /\ \A t \in Threads :
        pc[t] = "nofile" => status[upload[t]] = "uploading"
    /\ \A t \in Threads :
        video_id[t] = "missing" =>
            pc[t] = "remove" /\ status[upload[t]] = "failed"

\* C7: with the dispatcher started and not stopped, every entry in the
\* registry eventually is completed or failed and out of the registry; and a
\* transfer that succeeds takes the entry from uploading to completed.
C7_EventuallyExecuted ==
    /\ \A e \in Uploads :
        (InRegistry(e) /\ scheduler_running)
            ~> (Terminal(e) /\ ~InRegistry(e))
    /\ [][\A t \in Threads :
            pc[t] = "transfer" /\ video_id'[t] = "id" =>
                status[upload[t]] = "uploading"
                /\ status'[upload[t]] = "completed"]_vars

\* an entry submitted with its fire time ahead has been completed and removed
\* while the dispatcher runs, and the loop is asleep again
C7_Witness ==
    \E e \in Uploads, t \in Threads :
        /\ status[e] = "completed" /\ ~InRegistry(e)
        /\ scheduler_running /\ pc[t] = "sleep" /\ sleepLeft[t] < SleepInterval

\* C8: a start request made while the dispatcher is running creates no
\* thread and leaves the running flag, the thread handle and the registry
\* as they are.
C8_StartWhileRunningNoOp ==
    [][~redundantStart /\ redundantStart' =>
        UNCHANGED <<scheduler_running, scheduler_thread, scheduled_uploads,
                    pc>>]_vars

\* a start request was made while the dispatcher was running
C8_Witness ==
    redundantStart /\ scheduler_running /\ Live(scheduler_thread)

\* C9: at most one dispatcher loop is live.
C9_SingleLoop ==
    Cardinality({t \in Threads : Live(t)}) <= 1

\* C10: a loop that was running when a stop was requested begins no new scan
\* when its sleep returns: it leaves the loop.
C10_ExitsAtNextWake ==
    [][\A t \in Threads :
        StopRequested(t) /\ pc[t] = "sleep" => pc'[t] \in {"sleep", "done"}]_vars

\* C11: within one scan the due entries are executed one at a time in
\* registry order: when a loop sets an entry B to uploading, every entry A
\* that was pending and due before B in the registry when the scan began
\* and that this loop did not execute itself (it found A no longer pending)
\* is completed or failed and out of the registry.
C11_RegistryOrder ==
    [][\A t \in Threads :
        pc[t] = "set" /\ pc'[t] # "set" =>
            \A a \in passed[t] : Terminal(a) /\ ~InRegistry(a)]_vars

\* C20: upload_video is invoked at most once for each entry: every call of
\* line 403 is for an entry that no call was made for before, that is, an
\* entry whose status is still pending when line 401 sets it to uploading.
C20_UploadAtMostOnce ==
    [][\A t \in Threads :
        pc[t] = "set" /\ pc'[t] \in {"transfer", "nofile"} =>
            status[upload[t]] = "pending"]_vars

\* C12: a step that reports progress prints a progress line if and only if
\* at least 2 seconds have passed since the last printed line (since the
\* transfer began when there is none) or its integer percentage is 25, 50,
\* 75 or 100; a printed line sets the last-printed time to the time of the
\* step, and a step that prints nothing leaves it as it is.
C12_ProgressThrottle ==
    [][progress' # progress =>
        LET shown == current_time' - last_progress_time >= 2
                     \/ progress_pct' \in {25, 50, 75, 100}
        IN  /\ shown => /\ printed' = Append(printed, progress_pct')
                        /\ last_progress_time' = current_time'
            /\ ~shown => /\ printed' = printed
                         /\ last_progress_time' = last_progress_time]_vars

\* a line was printed for 25% less than 2 seconds after the transfer began,
\* and the next step, at 26%, printed nothing
C12_Witness ==
    /\ progress_pct = 26 /\ printed = <<25>>
    /\ last_progress_time < 2 /\ current_time - last_progress_time = 1

\* C13: when every step of a transfer arrives less than 2 seconds after the
\* transfer began, then for each of the milestones 25, 50 and 100 that the
\* reported progress reaches or passes, the finished transfer has printed
\* a progress line at or past that milestone.
C13_MilestonesVisible ==
    response = "done" /\ current_time < 2 =>
        \A m \in {25, 50, 100} :
            progress_pct >= m =>
                \E i \in 1..Len(printed) : printed[i] >= m

\* C14: for a phrase that is a time alone, the parser returns today at the
\* hour and minute of the phrase, second 0, when that is strictly after now,
\* and otherwise that time one day later; the result is strictly after now
\* and at most 24 hours after it.
C14_TimeOnlyRollover ==
    phrase.style \in TimeStyles =>
        LET today == [date |-> now.date, hour |-> phrase.hour,
                      minute |-> phrase.minute, second |-> 0]
        IN  /\ scheduled_time = IF Stamp(today) > Stamp(now) THEN today
                                ELSE [today EXCEPT !.date = now.date + 1]
            /\ Stamp(scheduled_time) > Stamp(now)
            /\ Stamp(scheduled_time) - Stamp(now) <= 24 * 60 * 60

\* the operator asked for the very minute it is, at second 0: the result is
\* that time tomorrow
C14_Witness ==
    /\ phrase.style = "10:30pm"
    /\ phrase.hour = now.hour /\ phrase.minute = now.minute /\ now.second = 0
    /\ scheduled_time.date = now.date + 1

\* C15: for a malformed phrase the parser returns None and raises nothing,
\* and a request whose phrase gives None creates no entry, leaves the
\* registry as it is and starts no dispatcher.
C15_MalformedDiscarded ==
    [][requests' # requests =>
        /\ phrase'.style = "malformed" => scheduled_time' = None
        /\ scheduled_time' = None =>
                UNCHANGED <<scheduled_uploads, status, time_until_upload,
                            scheduler_running, scheduler_thread, pc>>]_vars

\* a malformed phrase typed after a request that scheduled an entry
C15_Witness ==
    /\ phrase.style = "malformed" /\ scheduled_time = None
    /\ requests = 2 /\ Len(scheduled_uploads) = 1 /\ scheduler_running

\* C16: generate_metadata never fails: it always returns a title and a
\* description, and when the bot has no model, or the model raises when it
\* is called or when the text of its response is read, what it returns is
\* the fallback metadata of the file name and the context.
C16_NeverFails ==
    metadata # None =>
        /\ DOMAIN metadata = {"title", "description"}
        /\ gemini_model = None \/ gemini_model.raises =>
               metadata = _create_fallback_metadata(video_path, user_context)

\* the response of the model raised when its text was read, and the title
\* returned for "Sunset Timelapse [raw].mp4" is "Sunset Timelapse"
C16_Witness ==
    /\ metadata # None
    /\ gemini_model # None
    /\ gemini_model.raises
    /\ gemini_model.when = "text"
    /\ user_context # <<>>
    /\ metadata.title = <<"S", "u", "n", "s", "e", "t", " ", "T", "i", "m",
                          "e", "l", "a", "p", "s", "e">>

\* C17: when the model answers and the title read from its answer is empty
\* once the markers and the emphasis marks are removed and it is trimmed,
\* generate_metadata returns the fallback metadata of the file name, not a
\* placeholder.
C17_EmptyTitleFallsBack ==
    /\ metadata # None
    /\ gemini_model # None
    /\ ~gemini_model.raises
    /\ Unmarked(Sections(gemini_model.text).title) = <<>>
    => metadata = _create_fallback_metadata(video_path, user_context)

C19_Idempotent ==
    Len(titles) = 3 => titles[3] = titles[2]

\* a title was cut just after a blank, and sanitized again
C19_Witness ==
    /\ Len(titles) = 3
    /\ Len(titles[1]) > MAX_TITLE_LENGTH
    /\ titles[2][MAX_TITLE_LENGTH - 3] = " "
    /\ titles[3] = titles[2]

\* C21: every timer is local to one upload: when an upload made from the
\* menu overlaps one made by the scheduler loop, the total time an upload
\* prints is the time from its own start to its own end, never reset or
\* ended by the other upload.
C21_TimerAttemptLocal ==
    \A a \in Attempts :
        total[a] # NoTotal => total[a] = ended[a] - began[a]

\* the place of the entry e in the registry s
Place(s, e) == CHOOSE i \in 1..Len(s) : s[i] = e

\* C22: the registry is safe under an append by the foreground thread
\* during a scan: an entry leaves the registry only when the loop that
\* executed it removes it; an entry that is pending stays in the registry
\* and pending until a loop executes it when it is due; the entries that
\* stay keep their relative order; and a scan that begins considers every
\* entry of the registry that is pending and due.
C22_RegistrySafe ==
    [][/\ \A e \in Uploads :
            InRegistry(e) /\ ~InRegistry(e)' =>
                \E t \in Threads : pc[t] = "remove" /\ upload[t] = e
       /\ \A e \in Uploads :
            InRegistry(e) /\ status[e] = "pending" =>
                /\ InRegistry(e)'
                /\ \/ status'[e] = "pending"
                   \/ \E t \in Threads :
                        /\ pc[t] = "set" /\ upload[t] = e
                        /\ time_until_upload[e] = 0
       /\ \A a, b \in Uploads :
            /\ InRegistry(a) /\ InRegistry(b)
            /\ InRegistry(a)' /\ InRegistry(b)'
            /\ Place(scheduled_uploads, a) < Place(scheduled_uploads, b)
            => Place(scheduled_uploads', a) < Place(scheduled_uploads', b)
       /\ \A t \in Threads :
            pc[t] \in {"while", "sleep"} /\ pc'[t] = "for" =>
                \A e \in Uploads :
                    /\ InRegistry(e) /\ status[e] = "pending"
                    /\ time_until_upload[e] = 0
                    => \E i \in 1..Len(todo'[t]) : todo'[t][i] = e]_vars

\* a loop has removed the entry it executed, and an entry that is due and
\* not of its scan is in the registry, pending
C22_Witness ==
    \E t \in Threads :
        /\ pc[t] = "for"
        /\ Terminal(1) /\ ~InRegistry(1)
        /\ scheduled_uploads = <<2, 3>>
        /\ status[2] = "pending" /\ status[3] = "pending"
        /\ time_until_upload[2] = 0
        /\ \A i \in 1..Len(todo[t]) : todo[t][i] # 2

====
